---- MODULE Spec2Model ----
(***************************************************************************)
(* Model of the aggregation engine of the financial report system:        *)
(* FinancialAnalyzer (src/financial_analyzer.py) over a cleaned           *)
(* transaction table.  Amounts are integers (minor currency units);       *)
(* quotients (mean, percentage) are kept as exact fractions num/den, and  *)
(* the fraction 0/0 stands for the floating-point NaN that pandas returns *)
(* for the mean of an empty column.  Around the engine are modelled the   *)
(* loading boundary (DataLoader, src/data_loader.py), the orchestration   *)
(* (FinancialReportSystem, src/financial_system.py) and the slice         *)
(* computation of the spending pie chart (src/visualization.py).  Text    *)
(* the code transforms is a sequence of one-character strings.            *)
(***************************************************************************)
EXTENDS Integers, Sequences, FiniteSets, TLC

\* raw_data, processed_data: the fields of the FinancialAnalyzer;
\* call, result: the last call made and what it returned or raised
VARIABLES raw_data, processed_data, call, result

\* data_loader: the DataLoader of the system (data, file_path);
\* analyzer: whether a FinancialAnalyzer exists ("None" in a system before
\* its first successful load); report_files: the report files written;
\* last_loaded: the table the most recent successful load returned;
\* spending_data: the map handed to create_spending_pie_chart
VARIABLES data_loader, analyzer, report_files, last_loaded, spending_data

around == <<data_loader, analyzer, report_files, last_loaded, spending_data>>

vars == <<raw_data, processed_data, call, result, around>>

(***************************************************************************)
(* Bounds of the model.                                                    *)
(***************************************************************************)
MaxRows == 2

\* rows of a table in SpecSession, where every method is called in any order
MaxSessionRows == 1

\* largest n passed to get_top_spending_categories
MaxTopN == 2

(***************************************************************************)
(* Category labels (src/config.py) and the other labels of the model.      *)
(***************************************************************************)
LOAN_CATEGORY == "Loan, interests"
REPAYMENT_CATEGORY == "Lending, renting"
CHARITY_CATEGORY == "Charity"

\* REPORT_CONFIG['base_currency']
base_currency == "EGP"

\* the lending bucket without the 'Lending, renting' label
spending_categories_LoanOnly ==
  [charity |-> {"Charity"}, lending |-> {"Loan, interests"}]

spending_categories ==
  [charity |-> {"Charity"}, lending |-> {"Loan, interests", "Lending, renting"}]

\* the three labels the engine knows and one ordinary label
Categories == {LOAN_CATEGORY, REPAYMENT_CATEGORY, CHARITY_CATEGORY, "Food"}

Amounts == {0 - 2, 0 - 1, 0, 1, 2}

\* Calendar dates of the rows: <<year, month>> (the day plays no part).
Dates == {<<2024, 2>>, <<2024, 11>>, <<2025, 2>>}

Periods == {"month", "year", "quarter"}

(***************************************************************************)
(* Numbers.                                                                *)
(***************************************************************************)
Abs(x) == IF x < 0 THEN 0 - x ELSE x

Max(a, b) == IF a >= b THEN a ELSE b

\* a / b of two numbers, as an exact fraction; b = 0 is the caller's concern.
Div(a, b) == [num |-> a, den |-> b]

Int2Frac(a) == [num |-> a, den |-> 1]

NaN == [num |-> 0, den |-> 0]

(***************************************************************************)
(* Series and dict helpers (pandas Series indexed by category, Python      *)
(* dict): a function whose DOMAIN is the set of keys.                      *)
(***************************************************************************)
RECURSIVE SumAmount(_)
SumAmount(rows) ==
  IF rows = <<>> THEN 0 ELSE Head(rows).amount + SumAmount(Tail(rows))

RECURSIVE SeriesSum(_)
SeriesSum(s) ==
  IF DOMAIN s = {} THEN 0
  ELSE LET k == CHOOSE k \in DOMAIN s : TRUE
       IN s[k] + SeriesSum([c \in DOMAIN s \ {k} |-> s[c]])

CategoryRows(rows, c) == SelectSeq(rows, LAMBDA r : r.category = c)

\* rows.groupby('category')['amount'].sum()
GroupByCategorySum(rows) ==
  [c \in {rows[i].category : i \in DOMAIN rows} |-> SumAmount(CategoryRows(rows, c))]

SeriesAbs(s) == [c \in DOMAIN s |-> Abs(s[c])]

\* s.drop(key, errors='ignore')
Drop(s, key) == [c \in DOMAIN s \ {key} |-> s[c]]

\* s[key] = v
SetItem(s, key, v) == [c \in DOMAIN s \cup {key} |-> IF c = key THEN v ELSE s[c]]

(***************************************************************************)
(* FinancialAnalyzer._prepare_data                                         *)
(***************************************************************************)
Quarter(d) == <<d[1], ((d[2] - 1) \div 3) + 1>>

\* a row of amount 0 flagged as income
PrepareRow_ZeroIsIncome(r) ==
  [date |-> r.date, category |-> r.category, amount |-> r.amount,
   month |-> r.date, year |-> r.date[1], quarter |-> Quarter(r.date),
   is_expense |-> r.amount < 0, is_income |-> r.amount >= 0]

PrepareRow(r) ==
  [date |-> r.date, category |-> r.category, amount |-> r.amount,
   month |-> r.date, year |-> r.date[1], quarter |-> Quarter(r.date),
   is_expense |-> r.amount < 0, is_income |-> r.amount > 0]

_prepare_data(df) == [i \in DOMAIN df |-> PrepareRow(df[i])]

(***************************************************************************)
(* FinancialAnalyzer._categorize_spending                                  *)
(***************************************************************************)
Restrict(s, keys) == [c \in DOMAIN s \cap keys |-> s[c]]

\* 'if' in place of 'elif': a lending category counted as normal too
_categorize_spending_IfNotElif(spending_by_category) ==
  LET inCharity == spending_categories.charity
      inLending == spending_categories.lending \ inCharity
      others == DOMAIN spending_by_category \ inCharity
  IN [charity |-> SeriesSum(Restrict(spending_by_category, inCharity)),
      lending |-> SeriesSum(Restrict(spending_by_category, inLending)),
      normal |-> SeriesSum(Restrict(spending_by_category, others))]

_categorize_spending(spending_by_category) ==
  LET inCharity == spending_categories.charity
      inLending == spending_categories.lending \ inCharity
      others == DOMAIN spending_by_category \ (inCharity \cup inLending)
  IN [charity |-> SeriesSum(Restrict(spending_by_category, inCharity)),
      lending |-> SeriesSum(Restrict(spending_by_category, inLending)),
      normal |-> SeriesSum(Restrict(spending_by_category, others))]

(***************************************************************************)
(* FinancialAnalyzer._calculate_metrics, in the order of its statements.   *)
(***************************************************************************)
\* data[data['is_expense']], data[data['is_income']]
Expenses(data) == SelectSeq(data, LAMBDA r : r.is_expense)

IncomeData(data) == SelectSeq(data, LAMBDA r : r.is_income)

\* abs(expenses[expenses['category'] == 'Loan, interests']['amount'].sum())
LoanExpenses(expenses) == Abs(SumAmount(CategoryRows(expenses, "Loan, interests")))

\* income_data[income_data['category'] == 'Lending, renting']['amount'].sum()
LoanIncome(income_data) == SumAmount(CategoryRows(income_data, "Lending, renting"))

\* the magnitude of the net amount, whoever owes it
OutstandingLending_Gross(net_loan_spending) == Abs(net_loan_spending)

\* the outstanding amount without the clamp at 0
OutstandingLending_NoClamp(net_loan_spending) == net_loan_spending

OutstandingLending(net_loan_spending) == Max(0, net_loan_spending)

\* the over-repayment without the clamp at 0
ExcessRepayment_NoClamp(net_loan_spending) == 0 - net_loan_spending

\* the over-repayment never reported
ExcessRepayment_Zero(net_loan_spending) == 0

ExcessRepayment(net_loan_spending) == Max(0, 0 - net_loan_spending)

\* a repaid loan left in the spending map
AdjustSpending_KeepRepaid(spending_by_category, net_loan_spending) ==
  IF net_loan_spending > 0
  THEN SetItem(spending_by_category, "Loan, interests", net_loan_spending)
  ELSE spending_by_category

\* the netted loan value written whatever its sign
AdjustSpending_AlwaysSet(spending_by_category, net_loan_spending) ==
  IF "Loan, interests" \in DOMAIN spending_by_category
  THEN SetItem(spending_by_category, "Loan, interests", net_loan_spending)
  ELSE spending_by_category

\* a repaid loan kept in the spending map with the amount 0
AdjustSpending_ZeroRepaid(spending_by_category, net_loan_spending) ==
  SetItem(spending_by_category, "Loan, interests", Max(0, net_loan_spending))

AdjustSpending(spending_by_category, net_loan_spending) ==
  IF net_loan_spending > 0
  THEN SetItem(spending_by_category, "Loan, interests", net_loan_spending)
  ELSE Drop(spending_by_category, "Loan, interests")

\* income labelled 'Loan, interests' dropped along with the repayments
AdjustIncome_DropLoanToo(income_by_category) ==
  Drop(Drop(income_by_category, "Lending, renting"), "Loan, interests")

\* the repayments left in the income map
AdjustIncome_Keep(income_by_category) == income_by_category

AdjustIncome(income_by_category) == Drop(income_by_category, "Lending, renting")

\* both totals summed from the spending map
AdjustedTotals_SameMap(adjusted_spending_by_category, adjusted_income_by_category) ==
  [total_spending |-> SeriesSum(adjusted_spending_by_category),
   total_income |-> SeriesSum(adjusted_spending_by_category)]

AdjustedTotals(adjusted_spending_by_category, adjusted_income_by_category) ==
  [total_spending |-> SeriesSum(adjusted_spending_by_category),
   total_income |-> SeriesSum(adjusted_income_by_category)]

\* abs(expenses[expenses['category'] == 'Charity']['amount'].sum())
CharitySpending(expenses) == Abs(SumAmount(CategoryRows(expenses, "Charity")))

SpendingExcludingCharity(total_spending_adjusted, charity_spending) ==
  total_spending_adjusted - charity_spending

\* the share as a fraction of 1, not of 100
CharityPercentage_NoScale(charity_spending, total_spending_adjusted) ==
  IF total_spending_adjusted > 0
  THEN Div(charity_spending, total_spending_adjusted)
  ELSE Int2Frac(0)

CharityPercentage(charity_spending, total_spending_adjusted) ==
  IF total_spending_adjusted > 0
  THEN Div(charity_spending * 100, total_spending_adjusted)
  ELSE Int2Frac(0)

\* the adjusted spending series as a second name of the raw one (no .copy()):
\* the netted loan value written through it shows in the raw map
RawTotals_Aliased(spending_by_category, income_by_category) ==
  LET loan_expenses == IF "Loan, interests" \in DOMAIN spending_by_category
                       THEN spending_by_category["Loan, interests"] ELSE 0
      loan_income == IF "Lending, renting" \in DOMAIN income_by_category
                     THEN income_by_category["Lending, renting"] ELSE 0
      written == IF loan_expenses - loan_income > 0
                 THEN SetItem(spending_by_category, "Loan, interests",
                              loan_expenses - loan_income)
                 ELSE spending_by_category
  IN [total_spending_raw |-> SeriesSum(written),
      total_income_raw |-> SeriesSum(income_by_category),
      spending_by_category_raw |-> written,
      income_by_category_raw |-> income_by_category]

\* The raw series as they are when the record is built: the adjusted series
\* are copies (.copy(), lines 80-81), so the writes to them leave these alone.
RawTotals(spending_by_category, income_by_category) ==
  [total_spending_raw |-> SeriesSum(spending_by_category),
   total_income_raw |-> SeriesSum(income_by_category),
   spending_by_category_raw |-> spending_by_category,
   income_by_category_raw |-> income_by_category]

\* data['amount'].mean(): NaN for an empty column
Mean(data) ==
  IF Len(data) = 0 THEN NaN ELSE Div(SumAmount(data), Len(data))

_calculate_metrics(data) ==
  LET expenses == Expenses(data)
      spending_by_category == SeriesAbs(GroupByCategorySum(expenses))
      income_data == IncomeData(data)
      income_by_category == GroupByCategorySum(income_data)
      loan_expenses == LoanExpenses(expenses)
      loan_income == LoanIncome(income_data)
      net_loan_spending == loan_expenses - loan_income
      outstanding_lending == OutstandingLending(net_loan_spending)
      excess_repayment == ExcessRepayment(net_loan_spending)
      adjusted_spending_by_category ==
        AdjustSpending(spending_by_category, net_loan_spending)
      adjusted_income_by_category == AdjustIncome(income_by_category)
      totals == AdjustedTotals(adjusted_spending_by_category,
                               adjusted_income_by_category)
      total_spending_adjusted == totals.total_spending
      total_income_adjusted == totals.total_income
      charity_spending == CharitySpending(expenses)
      spending_excluding_charity ==
        SpendingExcludingCharity(total_spending_adjusted, charity_spending)
      simplified_categories == _categorize_spending(adjusted_spending_by_category)
  IN [spending_by_category |-> adjusted_spending_by_category,
      income_by_category |-> adjusted_income_by_category,
      total_spending |-> total_spending_adjusted,
      total_income |-> total_income_adjusted,
      net_balance |-> total_income_adjusted - total_spending_adjusted,
      charity_spending |-> charity_spending,
      spending_excluding_charity |-> spending_excluding_charity,
      transaction_count |-> Len(data),
      avg_transaction |-> Mean(data),
      simplified_spending |-> simplified_categories,
      total_lending |-> loan_expenses,
      repaid_lending |-> loan_income,
      outstanding_lending |-> outstanding_lending,
      excess_repayment |-> excess_repayment,
      charity_percentage |->
        CharityPercentage(charity_spending, total_spending_adjusted),
      currency |-> base_currency,
      raw_totals |-> RawTotals(spending_by_category, income_by_category)]

analyze_all_time(data) == _calculate_metrics(data)

(***************************************************************************)
(* Period values and their str() form (pandas Period / int), as sequences  *)
(* of characters.                                                          *)
(***************************************************************************)
DigitChars == <<"0", "1", "2", "3", "4", "5", "6", "7", "8", "9">>

RECURSIVE StrNat(_)
StrNat(n) ==
  IF n < 10 THEN <<DigitChars[n + 1]>>
  ELSE Append(StrNat(n \div 10), DigitChars[(n % 10) + 1])

\* the month number without its leading zero
Pad2_NoPad(n) == StrNat(n)

Pad2(n) == IF n < 10 THEN <<"0">> \o StrNat(n) ELSE StrNat(n)

\* a quarter key without its year
StrPeriod_QuarterNoYear(period, v) ==
  CASE period = "month" -> StrNat(v[1]) \o <<"-">> \o Pad2(v[2])
    [] period = "quarter" -> <<"Q">> \o StrNat(v[2])
    [] period = "year" -> StrNat(v)

\* a month key without its year
StrPeriod_NoYear(period, v) ==
  CASE period = "month" -> Pad2(v[2])
    [] period = "quarter" -> StrNat(v[1]) \o <<"Q">> \o StrNat(v[2])
    [] period = "year" -> StrNat(v)

\* str(period_value) for a value of the column named period
StrPeriod(period, v) ==
  CASE period = "month" -> StrNat(v[1]) \o <<"-">> \o Pad2(v[2])
    [] period = "quarter" -> StrNat(v[1]) \o <<"Q">> \o StrNat(v[2])
    [] period = "year" -> StrNat(v)

\* position of a period value on the time axis (the order groupby sorts by)
PeriodOrdinal(period, v) ==
  CASE period = "month" -> v[1] * 12 + (v[2] - 1)
    [] period = "quarter" -> v[1] * 4 + (v[2] - 1)
    [] period = "year" -> v

RECURSIVE SortedValues(_, _)
SortedValues(period, vs) ==
  IF vs = {} THEN <<>>
  ELSE LET m == CHOOSE m \in vs :
                  \A w \in vs : PeriodOrdinal(period, m) <= PeriodOrdinal(period, w)
       IN <<m>> \o SortedValues(period, vs \ {m})

\* each period given the rows of the earlier periods too
GroupByPeriod_Cumulative(data, period) ==
  LET vs == SortedValues(period, {data[i][period] : i \in DOMAIN data})
  IN [i \in DOMAIN vs |->
        [value |-> vs[i],
         rows |-> SelectSeq(data, LAMBDA r :
                    PeriodOrdinal(period, r[period]) <= PeriodOrdinal(period, vs[i]))]]

\* each period given only the first of its rows
GroupByPeriod_FirstRow(data, period) ==
  LET vs == SortedValues(period, {data[i][period] : i \in DOMAIN data})
  IN [i \in DOMAIN vs |->
        [value |-> vs[i],
         rows |-> SubSeq(SelectSeq(data, LAMBDA r : r[period] = vs[i]), 1, 1)]]

\* data.groupby(period): the distinct values in ascending order, each with its rows
GroupByPeriod(data, period) ==
  LET vs == SortedValues(period, {data[i][period] : i \in DOMAIN data})
  IN [i \in DOMAIN vs |->
        [value |-> vs[i],
         rows |-> SelectSeq(data, LAMBDA r : r[period] = vs[i])]]

\* A dict in insertion order: the keys as inserted, and the value of each key.
RECURSIVE DictOf(_)
DictOf(items) ==
  IF items = <<>> THEN [keys |-> <<>>, val |-> <<>>]
  ELSE LET n == Len(items)
           d == DictOf(SubSeq(items, 1, n - 1))
           k == items[n][1]
       IN [keys |-> IF k \in DOMAIN d.val THEN d.keys ELSE Append(d.keys, k),
           val |-> [x \in DOMAIN d.val \cup {k} |->
                      IF x = k THEN items[n][2] ELSE d.val[x]]]

analyze_by_period(data, period) ==
  LET groups == GroupByPeriod(data, period)
  IN DictOf([i \in DOMAIN groups |->
               <<StrPeriod(period, groups[i].value),
                 _calculate_metrics(groups[i].rows)>>])

(***************************************************************************)
(* FinancialAnalyzer.get_charity_analysis                                  *)
(***************************************************************************)
\* the division without its guard (x / 0 is left undefined: den = 0)
Percentage_NoGuard(part, total) == Div(part * 100, total)

Percentage(part, total) ==
  IF total > 0 THEN Div(part * 100, total) ELSE Int2Frac(0)

get_charity_analysis(data) ==
  LET all_time_data == analyze_all_time(data)
      monthly_data == analyze_by_period(data, "month")
  IN [total_charity |-> all_time_data.charity_spending,
      percentage_of_spending |->
        Percentage(all_time_data.charity_spending, all_time_data.total_spending),
      by_month |->
        [keys |-> monthly_data.keys,
         val |-> [m \in DOMAIN monthly_data.val |->
                    [charity_amount |-> monthly_data.val[m].charity_spending,
                     percentage_of_monthly_spending |->
                       Percentage(monthly_data.val[m].charity_spending,
                                  monthly_data.val[m].total_spending)]]]]

(***************************************************************************)
(* FinancialAnalyzer.get_top_spending_categories                           *)
(***************************************************************************)
\* The order of the keys of a category dict: that of the groupby index it
\* comes from, which is sorted by label.
CategoryOrder == <<"Charity", "Food", "Lending, renting", "Loan, interests">>

\* d.items()
Items(d) ==
  LET present == SelectSeq(CategoryOrder, LAMBDA c : c \in DOMAIN d)
  IN [i \in DOMAIN present |-> <<present[i], d[present[i]]>>]

\* the sort without reverse=True: smallest amount first
RECURSIVE SortedByAmountDesc_Ascending(_)
SortedByAmountDesc_Ascending(items) ==
  IF items = <<>> THEN <<>>
  ELSE LET n == Len(items)
           done == SortedByAmountDesc_Ascending(SubSeq(items, 1, n - 1))
           x == items[n]
           ahead == SelectSeq(done, LAMBDA y : y[2] <= x[2])
           behind == SelectSeq(done, LAMBDA y : y[2] > x[2])
       IN ahead \o <<x>> \o behind

\* sorted(items, key=lambda x: x[1], reverse=True): stable, so items of equal
\* amount keep their order
RECURSIVE SortedByAmountDesc(_)
SortedByAmountDesc(items) ==
  IF items = <<>> THEN <<>>
  ELSE LET n == Len(items)
           done == SortedByAmountDesc(SubSeq(items, 1, n - 1))
           x == items[n]
           ahead == SelectSeq(done, LAMBDA y : y[2] >= x[2])
           behind == SelectSeq(done, LAMBDA y : y[2] < x[2])
       IN ahead \o <<x>> \o behind

\* items[:n], n >= 0
Take(items, n) == SubSeq(items, 1, IF n < Len(items) THEN n ELSE Len(items))

get_top_spending_categories(data, n) ==
  LET all_time_data == analyze_all_time(data)
      spending == all_time_data.spending_by_category
  IN DictOf(Take(SortedByAmountDesc(Items(spending)), n))

(***************************************************************************)
(* FinancialAnalyzer.get_monthly_summary                                   *)
(***************************************************************************)
get_monthly_summary(data) ==
  LET monthly_data == analyze_by_period(data, "month")
      keys == monthly_data.keys
  IN [months |-> keys,
      total_income |-> [i \in DOMAIN keys |-> monthly_data.val[keys[i]].total_income],
      total_spending |-> [i \in DOMAIN keys |-> monthly_data.val[keys[i]].total_spending],
      net_balance |-> [i \in DOMAIN keys |-> monthly_data.val[keys[i]].net_balance]]

(***************************************************************************)
(* FinancialAnalyzer.get_lending_summary: the class body defines it twice  *)
(* (lines 168 and 242); the later definition is the method of the class.   *)
(***************************************************************************)
\* what a call that ends in an exception leaves in place of a return value
Raised(exception, key) == [raised |-> exception, key |-> key]

HasRaised(r) == "raised" \in DOMAIN r

get_lending_summary(data) ==
  LET all_time_data == analyze_all_time(data)
      monthly_data == analyze_by_period(data, "month")
  IN IF "lending_details" \notin DOMAIN all_time_data
     THEN Raised("KeyError", "lending_details")
     ELSE IF \E m \in DOMAIN monthly_data.val :
                "lending_details" \notin DOMAIN monthly_data.val[m]
     THEN Raised("KeyError", "lending_details")
     ELSE [overall |-> all_time_data["lending_details"],
           by_month |->
             [keys |-> monthly_data.keys,
              val |-> [m \in DOMAIN monthly_data.val |->
                         monthly_data.val[m]["lending_details"]]]]

(***************************************************************************)
(* The tables an analyzer is built over.  Aggregation never reads the      *)
(* position of a row, so one ordering of each multiset of rows is taken.   *)
(***************************************************************************)
Rows == [date : Dates, category : Categories, amount : Amounts]

RECURSIVE SetToSeq(_)
SetToSeq(S) ==
  IF S = {} THEN <<>>
  ELSE LET x == CHOOSE x \in S : TRUE IN <<x>> \o SetToSeq(S \ {x})

RowList == SetToSeq(Rows)

\* index sequences in non-decreasing order: one per multiset of rows
Ordered(s) == \A k \in 1..(Len(s) - 1) : s[k] <= s[k + 1]

TableOf(s) == [k \in DOMAIN s |-> RowList[s[k]]]

(***************************************************************************)
(* The analyzer as a state machine: construction, then any sequence of     *)
(* calls of its public methods.                                            *)
(***************************************************************************)
NoResult == [none |-> TRUE]

\* Python's None, where a field holds a table or nothing
None == [none |-> TRUE]

IsNone(x) == "none" \in DOMAIN x

\* An analyzer constructed directly over a table: no loader, no reports.
StandAlone ==
  /\ data_loader = [data |-> None, file_path |-> None]
  /\ analyzer = "FinancialAnalyzer"
  /\ report_files = <<>>
  /\ last_loaded = None
  /\ spending_data = <<>>

\* FinancialAnalyzer.__init__
Init ==
  \E n \in 0..MaxRows : \E s \in [1..n -> 1..Len(RowList)] :
    /\ Ordered(s)
    /\ raw_data = TableOf(s)
    /\ processed_data = _prepare_data(TableOf(s))
    /\ call = <<"__init__">>
    /\ result = NoResult
    /\ StandAlone

\* the amounts made positive in the analyzer's own table, not in a copy
AnalyzeAllTime_InPlace ==
  /\ call' = <<"analyze_all_time">>
  /\ result' = analyze_all_time(processed_data)
  /\ processed_data' =
       [i \in DOMAIN processed_data |->
          [processed_data[i] EXCEPT !.amount = Abs(processed_data[i].amount)]]
  /\ UNCHANGED <<raw_data, around>>

AnalyzeAllTime ==
  /\ call' = <<"analyze_all_time">>
  /\ result' = analyze_all_time(processed_data)
  /\ UNCHANGED <<raw_data, processed_data, around>>

AnalyzeByPeriod ==
  \E period \in Periods :
    /\ call' = <<"analyze_by_period", period>>
    /\ result' = analyze_by_period(processed_data, period)
    /\ UNCHANGED <<raw_data, processed_data, around>>

GetCharityAnalysis ==
  /\ call' = <<"get_charity_analysis">>
  /\ result' = get_charity_analysis(processed_data)
  /\ UNCHANGED <<raw_data, processed_data, around>>

Next ==
  \/ AnalyzeAllTime
  \/ AnalyzeByPeriod
  \/ GetCharityAnalysis

Spec == Init /\ [][Next]_vars

GetTopSpendingCategories ==
  \E n \in 0..MaxTopN :
    /\ call' = <<"get_top_spending_categories", n>>
    /\ result' = get_top_spending_categories(processed_data, n)
    /\ UNCHANGED <<raw_data, processed_data, around>>

GetMonthlySummary ==
  /\ call' = <<"get_monthly_summary">>
  /\ result' = get_monthly_summary(processed_data)
  /\ UNCHANGED <<raw_data, processed_data, around>>

GetLendingSummary ==
  /\ call' = <<"get_lending_summary">>
  /\ result' = get_lending_summary(processed_data)
  /\ UNCHANGED <<raw_data, processed_data, around>>

\* The secondary views of an analyzer, called in any order.
NextViews ==
  \/ GetTopSpendingCategories
  \/ GetMonthlySummary
  \/ GetLendingSummary

SpecViews == Init /\ [][NextViews]_vars

\* Every public method of an analyzer, called in any order.
InitSession ==
  \E n \in 0..MaxSessionRows : \E s \in [1..n -> 1..Len(RowList)] :
    /\ Ordered(s)
    /\ raw_data = TableOf(s)
    /\ processed_data = _prepare_data(TableOf(s))
    /\ call = <<"__init__">>
    /\ result = NoResult
    /\ StandAlone

NextSession ==
  \/ AnalyzeAllTime
  \/ AnalyzeByPeriod
  \/ GetCharityAnalysis
  \/ GetTopSpendingCategories
  \/ GetMonthlySummary
  \/ GetLendingSummary

SpecSession == InitSession /\ [][NextSession]_vars

(***************************************************************************)
(* Python str as a sequence of characters.                                 *)
(***************************************************************************)
UpperChars == <<"A", "B", "C", "D", "E", "F", "G", "H", "I", "J", "K", "L", "M", "N", "O", "P", "Q", "R", "S", "T", "U", "V", "W", "X", "Y", "Z">>

LowerChars == <<"a", "b", "c", "d", "e", "f", "g", "h", "i", "j", "k", "l", "m", "n", "o", "p", "q", "r", "s", "t", "u", "v", "w", "x", "y", "z">>

LowerChar(c) ==
  IF \E i \in DOMAIN UpperChars : UpperChars[i] = c
  THEN LowerChars[CHOOSE i \in DOMAIN UpperChars : UpperChars[i] = c]
  ELSE c

\* str.lower()
StrLower(s) == [i \in DOMAIN s |-> LowerChar(s[i])]

\* str.strip(): the spaces at both ends removed
RECURSIVE StrStrip(_)
StrStrip(s) ==
  IF s = <<>> THEN s
  ELSE IF Head(s) = " " THEN StrStrip(Tail(s))
  ELSE IF s[Len(s)] = " " THEN StrStrip(SubSeq(s, 1, Len(s) - 1))
  ELSE s

\* str.replace(old, '', regex=False): every occurrence of old removed
RECURSIVE StrReplace(_, _)
StrReplace(s, old) ==
  IF Len(s) < Len(old) THEN s
  ELSE IF SubSeq(s, 1, Len(old)) = old
       THEN StrReplace(SubSeq(s, Len(old) + 1, Len(s)), old)
       ELSE <<Head(s)>> \o StrReplace(Tail(s), old)

(***************************************************************************)
(* Cells and tables of the loading boundary.  A cell read from a file is   *)
(* text or missing; a numeric cell is a number or NaN.  A DataFrame is its *)
(* column names, its row labels (index) and one series of cells per        *)
(* column.                                                                 *)
(***************************************************************************)
Text(t) == [na |-> FALSE, text |-> t]

NA == [na |-> TRUE, text |-> <<>>]

Number(n) == [isna |-> FALSE, value |-> n]

NotANumber == [isna |-> TRUE, value |-> 0]

NRows(df) == Len(df.index)

HasColumn(df, name) == \E j \in DOMAIN df.columns : df.columns[j] = name

\* df[name]
Column(df, name) ==
  df.values[CHOOSE j \in DOMAIN df.columns : df.columns[j] = name]

\* df[name] = series
SetColumn(df, name, series) ==
  IF HasColumn(df, name)
  THEN [df EXCEPT !.values =
          [j \in DOMAIN df.values |->
             IF df.columns[j] = name THEN series ELSE df.values[j]]]
  ELSE [df EXCEPT !.columns = Append(@, name), !.values = Append(@, series)]

\* df[name] = scalar
Broadcast(df, scalar) == [k \in 1..NRows(df) |-> scalar]

\* df[mask]: the rows where mask holds, with their labels, in their order
FilterRows(df, mask) ==
  LET kept == SelectSeq([k \in 1..NRows(df) |-> k], LAMBDA k : mask[k])
  IN [columns |-> df.columns,
      index |-> [i \in DOMAIN kept |-> df.index[kept[i]]],
      values |-> [j \in DOMAIN df.values |->
                    [i \in DOMAIN kept |-> df.values[j][kept[i]]]]]

IsDigit(c) == \E i \in DOMAIN DigitChars : DigitChars[i] = c

DigitValue(c) == (CHOOSE i \in DOMAIN DigitChars : DigitChars[i] = c) - 1

AllDigits(s) == s # <<>> /\ \A i \in DOMAIN s : IsDigit(s[i])

RECURSIVE ParseNat(_)
ParseNat(s) ==
  IF s = <<>> THEN 0
  ELSE ParseNat(SubSeq(s, 1, Len(s) - 1)) * 10 + DigitValue(s[Len(s)])

\* pd.to_numeric(text, errors='coerce') on whole numbers with an optional
\* sign: anything else (the text 'nan' too) is NaN
ToNumeric(s) ==
  IF AllDigits(s) THEN Number(ParseNat(s))
  ELSE IF s # <<>> /\ Head(s) = "-" /\ AllDigits(Tail(s))
       THEN Number(0 - ParseNat(Tail(s)))
       ELSE NotANumber

\* pd.to_numeric(series, errors='coerce'): a missing cell is NaN
ToNumericSeries(series) ==
  [k \in DOMAIN series |->
     IF series[k].na THEN NotANumber ELSE ToNumeric(series[k].text)]

\* series.astype(str): a missing cell becomes the text 'nan'
AsTypeStr(series) ==
  [k \in DOMAIN series |->
     IF series[k].na THEN <<"n", "a", "n">> ELSE series[k].text]

\* the currency symbols and thousands separators removed, then strip()
CleanAmount(amount_str) ==
  StrStrip(StrReplace(StrReplace(StrReplace(StrReplace(StrReplace(
    amount_str, <<"$">>), <<"€">>), <<"£">>), <<"E", "G", "P">>), <<",">>))

\* pd.to_datetime on the text 'YYYY-MM': the <<year, month>> of the analyzer,
\* or an error for anything else
IsDateText(s) ==
  /\ Len(s) = 7
  /\ AllDigits(SubSeq(s, 1, 4))
  /\ s[5] = "-"
  /\ AllDigits(SubSeq(s, 6, 7))
  /\ ParseNat(SubSeq(s, 6, 7)) \in 1..12

ToDatetime(s) == <<ParseNat(SubSeq(s, 1, 4)), ParseNat(SubSeq(s, 6, 7))>>

(***************************************************************************)
(* DataLoader (src/data_loader.py)                                         *)
(***************************************************************************)
required_columns == <<<<"d", "a", "t", "e">>, <<"c", "a", "t", "e", "g", "o", "r", "y">>>>

Col_amount == <<"a", "m", "o", "u", "n", "t">>

Col_ref_currency_amount == <<"r", "e", "f", "_", "c", "u", "r", "r", "e", "n", "c", "y", "_", "a", "m", "o", "u", "n", "t">>

Col_description == <<"d", "e", "s", "c", "r", "i", "p", "t", "i", "o", "n">>

Col_currency == <<"c", "u", "r", "r", "e", "n", "c", "y">>

No_description == <<"N", "o", " ", "d", "e", "s", "c", "r", "i", "p", "t", "i", "o", "n">>

Ok == <<>>

\* self.data.columns.str.lower().str.strip()
RenameColumns(data) ==
  [data EXCEPT !.columns = [j \in DOMAIN @ |-> StrStrip(StrLower(@[j]))]]

MissingColumns(data) ==
  SelectSeq(required_columns, LAMBDA col : ~HasColumn(data, col))

\* the 'amount' column from ref_currency_amount as it is
AmountFromRef(data) ==
  SetColumn(data, Col_amount,
            ToNumericSeries(Column(data, Col_ref_currency_amount)))

\* the 'amount' column from its own text, cleaned of currency symbols
AmountFromText(data) ==
  LET amount_str == AsTypeStr(Column(data, Col_amount))
  IN SetColumn(data, Col_amount,
               [k \in DOMAIN amount_str |-> ToNumeric(CleanAmount(amount_str[k]))])

DatesParse(data) ==
  LET dates == Column(data, required_columns[1])
  IN \A k \in DOMAIN dates : ~dates[k].na /\ IsDateText(dates[k].text)

\* self.data['date'] = pd.to_datetime(self.data['date'])
ConvertDates(data) ==
  LET dates == Column(data, required_columns[1])
  IN SetColumn(data, required_columns[1],
               [k \in DOMAIN dates |-> ToDatetime(dates[k].text)])

\* the rows of invalid amount left in the table
DropInvalidAmounts_Keep(data) == data

\* self.data = self.data[~invalid_amounts] when any amount is NaN
DropInvalidAmounts(data) ==
  LET invalid_amounts == [k \in 1..NRows(data) |-> Column(data, Col_amount)[k].isna]
  IN IF \E k \in DOMAIN invalid_amounts : invalid_amounts[k]
     THEN FilterRows(data, [k \in DOMAIN invalid_amounts |-> ~invalid_amounts[k]])
     ELSE data

\* the 'description' column set where it is absent, filled where it is missing
FillDescriptions(data) ==
  IF ~HasColumn(data, Col_description)
  THEN SetColumn(data, Col_description, Broadcast(data, Text(No_description)))
  ELSE LET description == Column(data, Col_description)
       IN SetColumn(data, Col_description,
                    [k \in DOMAIN description |->
                       IF description[k].na THEN Text(No_description)
                       ELSE description[k]])

SetCurrency(data) == SetColumn(data, Col_currency, Broadcast(data, base_currency))

Failed(exception, message, data) ==
  [error |-> <<exception, message>>, data |-> data]

\* the steps of _clean_data after the columns are found
CleanAmounts(renamed) ==
  LET with_amount == IF HasColumn(renamed, Col_ref_currency_amount)
                     THEN AmountFromRef(renamed)
                     ELSE AmountFromText(renamed)
  IN IF ~DatesParse(with_amount)
     THEN Failed("ValueError", "Unknown datetime string format", with_amount)
     ELSE [error |-> Ok,
           data |-> SetCurrency(FillDescriptions(DropInvalidAmounts(
                      ConvertDates(with_amount))))]

\* DataLoader._clean_data on self.data: the error raised (Ok when none) and
\* self.data as the method leaves it
_clean_data(data) ==
  LET renamed == RenameColumns(data)
  IN IF MissingColumns(renamed) # <<>>
     THEN Failed("ValueError", "Missing required columns", renamed)
     ELSE IF /\ ~HasColumn(renamed, Col_ref_currency_amount)
             /\ ~HasColumn(renamed, Col_amount)
     THEN Failed("ValueError",
                 "Neither 'ref_currency_amount' nor 'amount' column found", renamed)
     ELSE CleanAmounts(renamed)

\* pd.read_excel / pd.read_csv: the header, the rows labelled 0, 1, ... and
\* the cells as text
ReadFile(f) ==
  [columns |-> f.columns,
   index |-> [k \in 1..f.nrows |-> k - 1],
   values |-> f.values]

\* Path(file_path).suffix: the last '.' of the name and what follows it
Suffix(path) ==
  LET dots == {i \in DOMAIN path : path[i] = "." /\ i > 1}
  IN IF dots = {} THEN <<>>
     ELSE SubSeq(path, CHOOSE i \in dots : \A j \in dots : j <= i, Len(path))

ExcelSuffixes == {<<".", "x", "l", "s", "x">>, <<".", "x", "l", "s">>}

CsvSuffix == <<".", "c", "s", "v">>

\* a file of any other suffix read as CSV
load_data_AnySuffix(self, f) ==
  LET with_path == [self EXCEPT !.file_path = f.path]
  IN IF ~f.exists
     THEN [returns |-> Raised("FileNotFoundError", "File not found"),
           self |-> with_path]
     ELSE LET cleaned == _clean_data(ReadFile(f))
              loaded == [with_path EXCEPT !.data = cleaned.data]
          IN IF cleaned.error # Ok
             THEN [returns |-> Raised("Exception", cleaned.error[2]), self |-> loaded]
             ELSE [returns |-> cleaned.data, self |-> loaded]

\* DataLoader.load_data(file_path), file_path naming the file f: what the
\* call returns or raises, and the loader as the call leaves it
load_data(self, f) ==
  LET with_path == [self EXCEPT !.file_path = f.path]
  IN IF ~f.exists
     THEN [returns |-> Raised("FileNotFoundError", "File not found"),
           self |-> with_path]
     ELSE IF \/ StrLower(Suffix(f.path)) \in ExcelSuffixes
             \/ StrLower(Suffix(f.path)) = CsvSuffix
     THEN LET cleaned == _clean_data(ReadFile(f))
              loaded == [with_path EXCEPT !.data = cleaned.data]
          IN IF cleaned.error # Ok
             THEN [returns |-> Raised("Exception", cleaned.error[2]), self |-> loaded]
             ELSE [returns |-> cleaned.data, self |-> loaded]
     ELSE [returns |-> Raised("Exception", "Unsupported file format"),
           self |-> with_path]


(***************************************************************************)
(* The files the loader is given.  A header is its column names, each with *)
(* the cells a row can hold in that column; a file is a path and, when it  *)
(* exists, a header and rows of text cells.                                *)
(***************************************************************************)
\* the numbers of rows of a file
FileRowCounts == {0, 1, 2}

\* two accepted formats (one in upper case) and one that is not
Paths == {<<"a", ".", "c", "s", "v">>, <<"b", ".", "X", "L", "S", "X">>, <<"c", ".", "t", "x", "t">>}

\* a ledger with an 'Amount' column that holds currency symbols
HeaderAmount ==
  <<[name |-> <<"D", "a", "t", "e">>, cells |-> {Text(<<"2", "0", "2", "4", "-", "0", "2">>)}],
    [name |-> <<"C", "a", "t", "e", "g", "o", "r", "y">>, cells |-> {Text(<<"F", "o", "o", "d">>)}],
    [name |-> <<"A", "m", "o", "u", "n", "t">>,
     cells |-> {Text(<<"-", "3">>), Text(<<"$", "1", ",", "0">>), Text(<<"x">>), NA}]>>

\* a ledger with both amount columns and a description
HeaderRef ==
  <<[name |-> <<" ", "d", "a", "t", "e", " ">>, cells |-> {Text(<<"2", "0", "2", "4", "-", "1", "1">>)}],
    [name |-> <<"C", "A", "T", "E", "G", "O", "R", "Y">>, cells |-> {Text(<<"F", "o", "o", "d">>)}],
    [name |-> <<"R", "e", "f", "_", "C", "u", "r", "r", "e", "n", "c", "y", "_", "A", "m", "o", "u", "n", "t">>, cells |-> {Text(<<"4">>), Text(<<"$", "2">>)}],
    [name |-> <<"a", "m", "o", "u", "n", "t">>, cells |-> {Text(<<"-", "3">>)}],
    [name |-> <<"D", "e", "s", "c", "r", "i", "p", "t", "i", "o", "n">>, cells |-> {Text(<<"r", "e", "n", "t">>), NA}]>>

HeaderNoAmount ==
  <<[name |-> <<"d", "a", "t", "e">>, cells |-> {Text(<<"2", "0", "2", "4", "-", "0", "2">>)}],
    [name |-> <<"c", "a", "t", "e", "g", "o", "r", "y">>, cells |-> {Text(<<"F", "o", "o", "d">>)}],
    [name |-> <<"d", "e", "s", "c", "r", "i", "p", "t", "i", "o", "n">>, cells |-> {Text(<<"r", "e", "n", "t">>)}]>>

HeaderNoDate ==
  <<[name |-> <<"c", "a", "t", "e", "g", "o", "r", "y">>, cells |-> {Text(<<"F", "o", "o", "d">>)}],
    [name |-> <<"a", "m", "o", "u", "n", "t">>, cells |-> {Text(<<"-", "3">>)}]>>

HeaderNoCategory ==
  <<[name |-> <<"d", "a", "t", "e">>, cells |-> {Text(<<"2", "0", "2", "4", "-", "0", "2">>)}],
    [name |-> <<"r", "e", "f", "_", "c", "u", "r", "r", "e", "n", "c", "y", "_", "a", "m", "o", "u", "n", "t">>, cells |-> {Text(<<"4">>)}]>>

\* a ledger with a date that does not parse
HeaderBadDate ==
  <<[name |-> <<"d", "a", "t", "e">>, cells |-> {Text(<<"2", "0", "2", "4", "-", "0", "2">>), Text(<<"2", "0", "2", "4", "-", "1", "3">>)}],
    [name |-> <<"c", "a", "t", "e", "g", "o", "r", "y">>, cells |-> {Text(<<"F", "o", "o", "d">>)}],
    [name |-> <<"a", "m", "o", "u", "n", "t">>, cells |-> {Text(<<"-", "3">>)}]>>

Headers ==
  {HeaderAmount, HeaderRef, HeaderNoAmount, HeaderNoDate, HeaderNoCategory,
   HeaderBadDate}

\* the rows a header allows: one cell per column
RECURSIVE RowsOf(_)
RowsOf(header) ==
  IF header = <<>> THEN {<<>>}
  ELSE {Append(r, c) : r \in RowsOf(SubSeq(header, 1, Len(header) - 1)),
                       c \in header[Len(header)].cells}

Content(header, rows) ==
  [columns |-> [j \in DOMAIN header |-> header[j].name],
   nrows |-> Len(rows),
   values |-> [j \in DOMAIN header |-> [k \in DOMAIN rows |-> rows[k][j]]]]

Contents(row_counts) ==
  UNION {{Content(header, rows) : rows \in [1..n -> RowsOf(header)]} :
           header \in Headers, n \in row_counts}

FileAt(path, content) ==
  [path |-> path, exists |-> TRUE, columns |-> content.columns,
   nrows |-> content.nrows, values |-> content.values]

NoFileAt(path) ==
  [path |-> path, exists |-> FALSE, columns |-> <<>>, nrows |-> 0, values |-> <<>>]

Files ==
  {FileAt(path, content) : path \in Paths, content \in Contents(FileRowCounts)}
    \cup {NoFileAt(path) : path \in Paths}

(***************************************************************************)
(* The loader as a state machine: construction, then any sequence of       *)
(* load_data calls, each on whatever file its path names at that time.     *)
(***************************************************************************)
NoAnalyzer ==
  /\ raw_data = <<>>
  /\ processed_data = <<>>
  /\ analyzer = "None"

\* DataLoader.__init__
InitLoader ==
  /\ data_loader = [data |-> None, file_path |-> None]
  /\ NoAnalyzer
  /\ report_files = <<>>
  /\ last_loaded = None
  /\ spending_data = <<>>
  /\ call = <<"__init__">>
  /\ result = NoResult

LoadData ==
  \E f \in Files :
    LET done == load_data(data_loader, f)
    IN /\ call' = <<"load_data", f>>
       /\ result' = done.returns
       /\ data_loader' = done.self
       /\ UNCHANGED <<raw_data, processed_data, analyzer, report_files,
                      last_loaded, spending_data>>

NextLoader == LoadData

SpecLoader == InitLoader /\ [][NextLoader]_vars

(***************************************************************************)
(* VisualizationEngine.create_spending_pie_chart: the slices handed to     *)
(* ax.pie, as a dict in insertion order.                                   *)
(***************************************************************************)
\* sum() of a list
RECURSIVE SeqSum(_)
SeqSum(q) == IF q = <<>> THEN 0 ELSE Head(q) + SeqSum(Tail(q))

\* d[k] = v on a dict
SetDictItem(d, k, v) ==
  [keys |-> IF k \in DOMAIN d.val THEN d.keys ELSE Append(d.keys, k),
   val |-> [x \in DOMAIN d.val \cup {k} |-> IF x = k THEN v ELSE d.val[x]]]

\* sum(d.values())
DictSum(d) == SeqSum([i \in DOMAIN d.keys |-> d.val[d.keys[i]]])

\* v / total > 0.02, in whole numbers
AboveThreshold(v, total) == v * 50 > total

create_spending_pie_chart(data) ==
  IF data.keys = <<>> THEN None
  ELSE LET total == DictSum(data)
           kept == SelectSeq(data.keys, LAMBDA k : AboveThreshold(data.val[k], total))
           filtered_data == DictOf([i \in DOMAIN kept |-> <<kept[i], data.val[kept[i]]>>])
           others_sum == total - DictSum(filtered_data)
       IN IF others_sum > 0
          THEN SetDictItem(filtered_data, "Others", others_sum)
          ELSE filtered_data

\* The spending maps given to the chart: positive amounts, some of them at
\* or below 2% of the total, under labels that include 'Others'.
ChartCategories == <<"Food", "Rent", "Others">>

ChartAmounts == {1, 2, 98}

SpendingMaps ==
  {DictOf(SelectSeq([i \in DOMAIN ChartCategories |-> <<ChartCategories[i], a[i]>>],
                    LAMBDA item : item[2] > 0)) :
     a \in [DOMAIN ChartCategories -> ChartAmounts \cup {0}]}

\* VisualizationEngine.__init__, and the map the next call is given
InitChart ==
  /\ spending_data \in SpendingMaps
  /\ data_loader = [data |-> None, file_path |-> None]
  /\ NoAnalyzer
  /\ report_files = <<>>
  /\ last_loaded = None
  /\ call = <<"__init__">>
  /\ result = NoResult

CreateSpendingPieChart ==
  /\ call' = <<"create_spending_pie_chart">>
  /\ result' = create_spending_pie_chart(spending_data)
  /\ UNCHANGED <<raw_data, processed_data, around>>

NextChart == CreateSpendingPieChart

SpecChart == InitChart /\ [][NextChart]_vars

(***************************************************************************)
(* FinancialReportSystem (src/financial_system.py)                         *)
(***************************************************************************)
\* the category labels of the analyzer as the text of a cell
CategoryText(c) ==
  CASE c = "Food" -> <<"F", "o", "o", "d">>
    [] c = "Charity" -> <<"C", "h", "a", "r", "i", "t", "y">>
    [] c = "Loan, interests" -> <<"L", "o", "a", "n", ",", " ", "i", "n", "t", "e", "r", "e", "s", "t", "s">>
    [] c = "Lending, renting" -> <<"L", "e", "n", "d", "i", "n", "g", ",", " ", "r", "e", "n", "t", "i", "n", "g">>

\* FinancialAnalyzer(df): the rows of df.copy() as the analyzer reads them
AnalyzerTable(df) ==
  [k \in 1..NRows(df) |->
     [date |-> Column(df, required_columns[1])[k],
      category |-> CHOOSE c \in Categories :
                     CategoryText(c) = Column(df, required_columns[2])[k].text,
      amount |-> Column(df, Col_amount)[k].value]]

\* excel_path as typed, stripped, and with one pair of quotes removed
Unquote(typed) ==
  LET excel_path == StrStrip(typed)
      quoted(q) == /\ excel_path # <<>>
                   /\ Head(excel_path) = q
                   /\ excel_path[Len(excel_path)] = q
  IN IF quoted("\"") \/ quoted("'")
     THEN SubSeq(excel_path, 2, Len(excel_path) - 1)
     ELSE excel_path

\* HTMLReportGenerator.generate: the three results the document and its
\* charts are drawn from
HtmlContent(data) ==
  [all_time_results |-> analyze_all_time(data),
   monthly_results |-> analyze_by_period(data, "month"),
   yearly_results |-> analyze_by_period(data, "year")]

\* CSVReportGenerator.generate: the rows of the summary
CsvContent(data) ==
  LET all_time_results == analyze_all_time(data)
      spending == Items(all_time_results.spending_by_category)
      income == Items(all_time_results.income_by_category)
  IN [i \in DOMAIN spending |->
        [Type |-> "Spending", Category |-> spending[i][1], Amount |-> spending[i][2]]]
     \o [i \in DOMAIN income |->
           [Type |-> "Income", Category |-> income[i][1], Amount |-> income[i][2]]]
     \o <<[Type |-> "Total", Category |-> "Total Income",
           Amount |-> all_time_results.total_income],
          [Type |-> "Total", Category |-> "Total Spending",
           Amount |-> all_time_results.total_spending],
          [Type |-> "Total", Category |-> "Net Balance",
           Amount |-> all_time_results.net_balance]>>

\* the files HTMLReportGenerator.generate writes: the pie chart of the
\* all-time spending when there is one, then the document
WriteHtml(files, output_path, data) ==
  LET spending_fig ==
        create_spending_pie_chart(
          DictOf(Items(analyze_all_time(data).spending_by_category)))
      with_chart == IF IsNone(spending_fig) THEN files
                    ELSE SetItem(files, "charts/spending_pie.png", spending_fig)
  IN SetItem(with_chart, output_path, HtmlContent(data))

WriteCsv(files, output_path, data) == SetItem(files, output_path, CsvContent(data))

NoDataLoaded == Raised("ValueError", "No data loaded. Please load data first.")

\* The files of a session of the system: one-row ledgers whose amount can
\* be read and ledgers that lack a column, under an accepted and an
\* unsupported suffix, and paths that name no file.
SystemPaths == {<<"a", ".", "c", "s", "v">>, <<"c", ".", "t", "x", "t">>}

HeaderLedger ==
  <<[name |-> <<"D", "a", "t", "e">>, cells |-> {Text(<<"2", "0", "2", "4", "-", "0", "2">>)}],
    [name |-> <<"C", "a", "t", "e", "g", "o", "r", "y">>, cells |-> {Text(<<"F", "o", "o", "d">>)}],
    [name |-> <<"A", "m", "o", "u", "n", "t">>, cells |-> {Text(<<"-", "3">>), Text(<<"$", "1", ",", "0">>)}]>>

SystemHeaders == {HeaderLedger, HeaderNoAmount, HeaderNoDate, HeaderNoCategory}

SystemFiles ==
  UNION {{FileAt(path, Content(header, <<row>>)) : row \in RowsOf(header)} :
           path \in SystemPaths, header \in SystemHeaders}
    \cup {NoFileAt(path) : path \in SystemPaths}

\* what the user may type for a path: the path in spaces, in quotes, or in
\* quotes that do not match
Typed(path) ==
  {<<" ">> \o path \o <<" ">>, <<"'">> \o path \o <<"'">>,
   <<"\"">> \o path \o <<"'">>}

\* a system that starts with an analyzer over an empty table
InitSystem_EmptyAnalyzer ==
  /\ data_loader = [data |-> None, file_path |-> None]
  /\ raw_data = <<>>
  /\ processed_data = <<>>
  /\ analyzer = "FinancialAnalyzer"
  /\ report_files = <<>>
  /\ last_loaded = None
  /\ spending_data = <<>>
  /\ call = <<"__init__">>
  /\ result = NoResult

\* FinancialReportSystem.__init__
InitSystem ==
  /\ data_loader = [data |-> None, file_path |-> None]
  /\ NoAnalyzer
  /\ report_files = <<>>
  /\ last_loaded = None
  /\ spending_data = <<>>
  /\ call = <<"__init__">>
  /\ result = NoResult

\* the analyzer cleared before the load is tried
LoadInto_ResetFirst(f) ==
  LET done == load_data(data_loader, f)
  IN /\ result' = done.returns
     /\ data_loader' = done.self
     /\ IF HasRaised(done.returns)
        THEN /\ raw_data' = <<>>
             /\ processed_data' = <<>>
             /\ analyzer' = "None"
             /\ UNCHANGED last_loaded
        ELSE /\ raw_data' = AnalyzerTable(done.returns)
             /\ processed_data' = _prepare_data(AnalyzerTable(done.returns))
             /\ analyzer' = "FinancialAnalyzer"
             /\ last_loaded' = done.returns
     /\ UNCHANGED <<report_files, spending_data>>

\* try: df = load_data(path); self.analyzer = FinancialAnalyzer(df); return df
\* except: raise
LoadInto(f) ==
  LET done == load_data(data_loader, f)
  IN /\ result' = done.returns
     /\ data_loader' = done.self
     /\ IF HasRaised(done.returns)
        THEN UNCHANGED <<raw_data, processed_data, analyzer, last_loaded>>
        ELSE /\ raw_data' = AnalyzerTable(done.returns)
             /\ processed_data' = _prepare_data(AnalyzerTable(done.returns))
             /\ analyzer' = "FinancialAnalyzer"
             /\ last_loaded' = done.returns
     /\ UNCHANGED <<report_files, spending_data>>

LoadDataFromFile ==
  \E f \in SystemFiles :
    /\ call' = <<"load_data_from_file", f>>
    /\ LoadInto(f)

LoadDataInteractive ==
  \E f \in SystemFiles : \E typed \in Typed(f.path) :
    LET excel_path == Unquote(typed)
        named == IF excel_path = f.path THEN f ELSE NoFileAt(excel_path)
    IN /\ call' = <<"load_data_interactive", named>>
       /\ LoadInto(named)

GenerateHtmlReport ==
  /\ call' = <<"generate_html_report", "report.html">>
  /\ IF analyzer = "None"
     THEN /\ result' = NoDataLoaded
          /\ UNCHANGED report_files
     ELSE /\ report_files' = WriteHtml(report_files, "report.html", processed_data)
          /\ result' = [path |-> "report.html"]
  /\ UNCHANGED <<raw_data, processed_data, data_loader, analyzer, last_loaded,
                 spending_data>>

GenerateCsvReport ==
  /\ call' = <<"generate_csv_report", "report.csv">>
  /\ IF analyzer = "None"
     THEN /\ result' = NoDataLoaded
          /\ UNCHANGED report_files
     ELSE /\ report_files' = WriteCsv(report_files, "report.csv", processed_data)
          /\ result' = [path |-> "report.csv"]
  /\ UNCHANGED <<raw_data, processed_data, data_loader, analyzer, last_loaded,
                 spending_data>>

\* generate_html_report(base_name + '.html'), then
\* generate_csv_report(base_name + '.csv')
GenerateAllReports ==
  /\ call' = <<"generate_all_reports", "report">>
  /\ IF analyzer = "None"
     THEN /\ result' = NoDataLoaded
          /\ UNCHANGED report_files
     ELSE /\ report_files' =
               WriteCsv(WriteHtml(report_files, "report.html", processed_data),
                        "report.csv", processed_data)
          /\ result' = [html |-> "report.html", csv |-> "report.csv"]
  /\ UNCHANGED <<raw_data, processed_data, data_loader, analyzer, last_loaded,
                 spending_data>>

GetQuickSummary ==
  /\ call' = <<"get_quick_summary">>
  /\ result' = IF analyzer = "None" THEN NoDataLoaded
               ELSE analyze_all_time(processed_data)
  /\ UNCHANGED <<raw_data, processed_data, around>>

NextSystem ==
  \/ LoadDataFromFile
  \/ LoadDataInteractive
  \/ GenerateHtmlReport
  \/ GenerateCsvReport
  \/ GenerateAllReports
  \/ GetQuickSummary

SpecSystem == InitSystem /\ [][NextSystem]_vars

(***************************************************************************)
(* Vocabulary of the properties.  The quantities a property speaks of are  *)
(* taken from the rows of the table themselves (date, category, amount),   *)
(* not from the columns and series the analyzer derives.                   *)
(***************************************************************************)
\* sum(d.values())
ValuesSum(d) ==
  LET keys == SetToSeq(DOMAIN d) IN SeqSum([i \in DOMAIN keys |-> d[keys[i]]])

ExpenseRows(rows, c) == SelectSeq(rows, LAMBDA r : r.amount < 0 /\ r.category = c)

IncomeRows(rows, c) == SelectSeq(rows, LAMBDA r : r.amount > 0 /\ r.category = c)

\* summed magnitude of the expense rows of category c
ExpenseTotal(rows, c) == SeqSum([i \in DOMAIN ExpenseRows(rows, c) |-> 0 - ExpenseRows(rows, c)[i].amount])

\* summed amount of the income rows of category c
IncomeTotal(rows, c) == SeqSum([i \in DOMAIN IncomeRows(rows, c) |-> IncomeRows(rows, c)[i].amount])

\* equality of two defined fractions
FracEq(p, q) == /\ p.den # 0
                /\ q.den # 0
                /\ p.num * q.den = q.num * p.den

IsZero(q) == q.den # 0 /\ q.num = 0

IsDefined(q) == q.den # 0

\* the period of granularity period a date falls in, as the key names it
KeyOfDate(period, d) ==
  CASE period = "month" -> StrPeriod("month", d)
    [] period = "quarter" -> StrPeriod("quarter", Quarter(d))
    [] period = "year" -> StrPeriod("year", d[1])

\* the rows of the table whose date falls in the period named key
RowsIn(period, key) == SelectSeq(raw_data, LAMBDA r : KeyOfDate(period, r.date) = key)

\* Every record the last call returned, with the transaction set it is the
\* record of: the whole table, or the rows of one period.
Computed ==
  CASE call[1] = "analyze_all_time" -> {[data |-> raw_data, rec |-> result]}
    [] call[1] = "analyze_by_period" ->
         {[data |-> RowsIn(call[2], k), rec |-> result.val[k]] : k \in DOMAIN result.val}
    [] OTHER -> {}

\* the part of a key before the first "-": the year of a month key
RECURSIVE BeforeDash(_)
BeforeDash(k) ==
  IF k = <<>> \/ Head(k) = "-" THEN <<>> ELSE <<Head(k)>> \o BeforeDash(Tail(k))

(***************************************************************************)
(* C1 (reconciliation): in every record _calculate_metrics returns, for    *)
(* the whole table or for one period, total_spending is the sum of the     *)
(* values of spending_by_category and total_income the sum of the values   *)
(* of income_by_category, both maps being the lending-adjusted ones.       *)
(***************************************************************************)
C1_Reconciliation ==
  \A p \in Computed :
    /\ p.rec.total_spending = ValuesSum(p.rec.spending_by_category)
    /\ p.rec.total_income = ValuesSum(p.rec.income_by_category)

\* a record whose adjusted spending total is positive and differs from the raw one
C1_Witness ==
  \E p \in Computed :
    /\ p.rec.total_spending > 0
    /\ p.rec.total_spending # p.rec.raw_totals.total_spending_raw
    /\ p.rec.spending_by_category # p.rec.raw_totals.spending_by_category_raw

(***************************************************************************)
(* C2 (lending netting): with L the summed magnitude of the expense rows   *)
(* in 'Loan, interests' and R the summed income rows in 'Lending,          *)
(* renting', outstanding_lending - excess_repayment = L - R, both fields   *)
(* are >= 0, at most one is nonzero, and both are zero exactly when L = R. *)
(***************************************************************************)
C2_LendingNetting ==
  \A p \in Computed :
    LET L == ExpenseTotal(p.data, LOAN_CATEGORY)
        R == IncomeTotal(p.data, REPAYMENT_CATEGORY)
        o == p.rec.outstanding_lending
        e == p.rec.excess_repayment
    IN /\ o - e = L - R
       /\ o >= 0
       /\ e >= 0
       /\ o = 0 \/ e = 0
       /\ (o = 0 /\ e = 0) <=> (L = R)

\* an over-repaid loan: 0 < L < R
C2_Witness ==
  \E p \in Computed :
    /\ ExpenseTotal(p.data, LOAN_CATEGORY) > 0
    /\ IncomeTotal(p.data, REPAYMENT_CATEGORY) > ExpenseTotal(p.data, LOAN_CATEGORY)
    /\ p.rec.excess_repayment > 0

(***************************************************************************)
(* C3 (adjusted spending map): the 'Loan, interests' entry of              *)
(* spending_by_category is net = L - R when net > 0 and is absent when     *)
(* net <= 0; every other category is present exactly when it has expense   *)
(* rows and carries their raw summed magnitude.                            *)
(***************************************************************************)
C3_LoanEntry ==
  \A p \in Computed :
    LET net == ExpenseTotal(p.data, LOAN_CATEGORY) - IncomeTotal(p.data, REPAYMENT_CATEGORY)
        sp == p.rec.spending_by_category
    IN /\ net > 0 => LOAN_CATEGORY \in DOMAIN sp /\ sp[LOAN_CATEGORY] = net
       /\ net <= 0 => LOAN_CATEGORY \notin DOMAIN sp
       /\ \A c \in Categories \ {LOAN_CATEGORY} :
            /\ c \in DOMAIN sp <=> ExpenseRows(p.data, c) # <<>>
            /\ c \in DOMAIN sp => sp[c] = ExpenseTotal(p.data, c)
       /\ DOMAIN sp \subseteq Categories

\* a partly repaid loan: the entry is the remainder, not the raw loan expense
C3_Witness ==
  \E p \in Computed :
    /\ IncomeTotal(p.data, REPAYMENT_CATEGORY) > 0
    /\ LOAN_CATEGORY \in DOMAIN p.rec.spending_by_category
    /\ p.rec.spending_by_category[LOAN_CATEGORY] < ExpenseTotal(p.data, LOAN_CATEGORY)

(***************************************************************************)
(* C4 (repayment exclusion): whatever the sign of net, 'Lending, renting'  *)
(* is no key of income_by_category and its income is no part of            *)
(* total_income; every other income category keeps its raw summed value.   *)
(***************************************************************************)
C4_RepaymentExcluded ==
  \A p \in Computed :
    LET inc == p.rec.income_by_category
        others == SetToSeq(Categories \ {REPAYMENT_CATEGORY})
    IN /\ REPAYMENT_CATEGORY \notin DOMAIN inc
       /\ p.rec.total_income =
            SeqSum([i \in DOMAIN others |-> IncomeTotal(p.data, others[i])])
       /\ \A c \in Categories \ {REPAYMENT_CATEGORY} :
            /\ c \in DOMAIN inc <=> IncomeRows(p.data, c) # <<>>
            /\ c \in DOMAIN inc => inc[c] = IncomeTotal(p.data, c)
       /\ DOMAIN inc \subseteq Categories

\* a set with repayment income beside other income
C4_Witness ==
  \E p \in Computed :
    /\ IncomeTotal(p.data, REPAYMENT_CATEGORY) > 0
    /\ p.rec.total_income > 0
    /\ p.rec.income_by_category # <<>>

(***************************************************************************)
(* C5 (simplified split is exhaustive): in every record the charity,       *)
(* lending and normal parts of simplified_spending add up to               *)
(* total_spending.                                                         *)
(***************************************************************************)
C5_SimplifiedSplit ==
  \A p \in Computed :
    p.rec.simplified_spending.charity + p.rec.simplified_spending.lending
      + p.rec.simplified_spending.normal = p.rec.total_spending

\* two of the three buckets are filled
C5_Witness ==
  \E p \in Computed :
    /\ p.rec.simplified_spending.lending > 0
    /\ p.rec.simplified_spending.normal > 0

(***************************************************************************)
(* C6 (charity): charity_spending is the raw summed magnitude of the       *)
(* expense rows in 'Charity' (0 without any), whatever the lending         *)
(* adjustment does; spending_excluding_charity is total_spending minus     *)
(* charity_spending; and when total_spending > 0, charity_percentage is    *)
(* charity_spending / total_spending * 100.  Charity 100, Food 400 and     *)
(* Salary +1000 give 500, 100 and 20.                                      *)
(***************************************************************************)
ScenarioC ==
  _calculate_metrics(_prepare_data(
    <<[date |-> <<2025, 1>>, category |-> "Charity", amount |-> 0 - 100],
      [date |-> <<2025, 1>>, category |-> "Food", amount |-> 0 - 400],
      [date |-> <<2025, 1>>, category |-> "Salary", amount |-> 1000]>>))

C6_Charity ==
  /\ \A p \in Computed :
       LET charity == ExpenseTotal(p.data, CHARITY_CATEGORY)
       IN /\ p.rec.charity_spending = charity
          /\ p.rec.spending_excluding_charity = p.rec.total_spending - charity
          /\ p.rec.total_spending > 0 =>
               /\ IsDefined(p.rec.charity_percentage)
               /\ p.rec.charity_percentage.num * p.rec.total_spending
                    = charity * 100 * p.rec.charity_percentage.den
  /\ call[1] = "analyze_all_time" =>
       /\ ScenarioC.total_spending = 500
       /\ ScenarioC.charity_spending = 100
       /\ FracEq(ScenarioC.charity_percentage, Int2Frac(20))
       /\ ScenarioC.simplified_spending = [charity |-> 100, lending |-> 0, normal |-> 400]

\* charity beside other spending, and no income labelled 'Charity'
C6_Witness ==
  \E p \in Computed :
    /\ p.rec.charity_spending > 0
    /\ p.rec.total_spending > p.rec.charity_spending
    /\ IncomeRows(p.data, CHARITY_CATEGORY) = <<>>
    /\ p.rec.charity_percentage.num > 0

(***************************************************************************)
(* C7 (zero-division safety): a record whose total_spending is 0 has       *)
(* charity_percentage 0, and get_charity_analysis gives percentage 0 for   *)
(* the whole table and for each month whose total_spending is 0; no        *)
(* percentage is ever undefined.                                           *)
(***************************************************************************)
C7_ZeroDivisionSafe ==
  /\ \A p \in Computed :
       /\ IsDefined(p.rec.charity_percentage)
       /\ p.rec.total_spending = 0 => IsZero(p.rec.charity_percentage)
  /\ call[1] = "get_charity_analysis" =>
       LET monthly == analyze_by_period(processed_data, "month")
       IN /\ IsDefined(result.percentage_of_spending)
          /\ analyze_all_time(processed_data).total_spending = 0 =>
               IsZero(result.percentage_of_spending)
          /\ DOMAIN result.by_month.val = DOMAIN monthly.val
          /\ \A m \in DOMAIN result.by_month.val :
               /\ IsDefined(result.by_month.val[m].percentage_of_monthly_spending)
               /\ monthly.val[m].total_spending = 0 =>
                    IsZero(result.by_month.val[m].percentage_of_monthly_spending)

\* the charity analysis of a table whose only expense is a fully repaid loan,
\* lent in one month and repaid in another
C7_Witness ==
  /\ call[1] = "get_charity_analysis"
  /\ analyze_all_time(processed_data).total_spending = 0
  /\ ExpenseTotal(raw_data, LOAN_CATEGORY) > 0
  /\ IsZero(result.percentage_of_spending)
  /\ \E m \in DOMAIN result.by_month.val :
       analyze_by_period(processed_data, "month").val[m].total_spending = 0

(***************************************************************************)
(* C8 (empty input): for an empty transaction set the record has every     *)
(* numeric aggregate 0, empty category maps, and avg_transaction 0.        *)
(***************************************************************************)
C8_EmptyInput ==
  \A p \in Computed :
    p.data = <<>> =>
      /\ p.rec.total_spending = 0
      /\ p.rec.total_income = 0
      /\ p.rec.net_balance = 0
      /\ p.rec.charity_spending = 0
      /\ IsZero(p.rec.charity_percentage)
      /\ p.rec.total_lending = 0
      /\ p.rec.repaid_lending = 0
      /\ p.rec.outstanding_lending = 0
      /\ p.rec.excess_repayment = 0
      /\ p.rec.transaction_count = 0
      /\ p.rec.spending_by_category = <<>>
      /\ p.rec.income_by_category = <<>>
      /\ IsZero(p.rec.avg_transaction)

(***************************************************************************)
(* C9 (partition consistency of income): the total_income of the months    *)
(* of a year add up to the total_income of that year's record, and the     *)
(* total_income of all months add up to the all-time total_income.         *)
(***************************************************************************)
MonthlyIncome(monthly, keys) ==
  LET ks == SetToSeq(keys)
  IN SeqSum([i \in DOMAIN ks |-> monthly.val[ks[i]].total_income])

C10_PeriodClosed ==
  call[1] = "analyze_by_period" =>
    /\ DOMAIN result.val = {KeyOfDate(call[2], raw_data[i].date) : i \in DOMAIN raw_data}
    /\ \A k \in DOMAIN result.val :
         LET own == RowsIn(call[2], k)
             rec == result.val[k]
         IN /\ rec = _calculate_metrics(_prepare_data(own))
            /\ rec.transaction_count = Len(own)
            /\ rec.total_lending = ExpenseTotal(own, LOAN_CATEGORY)
            /\ rec.repaid_lending = IncomeTotal(own, REPAYMENT_CATEGORY)

\* a loan in one period and its repayment in another one
C10_Witness ==
  /\ call[1] = "analyze_by_period"
  /\ \E k1, k2 \in DOMAIN result.val :
       /\ k1 # k2
       /\ result.val[k1].total_lending > 0
       /\ result.val[k1].repaid_lending = 0
       /\ result.val[k2].repaid_lending > 0
       /\ result.val[k2].excess_repayment > 0

(***************************************************************************)
(* C11 (no side effects): no call of analyze_all_time, analyze_by_period   *)
(* or a get_* view changes raw_data or processed_data, and in any sequence *)
(* of calls each call returns (or raises) what the same call returns when  *)
(* it is the first call on a fresh analyzer over the same table.           *)
(***************************************************************************)
\* what call c returns as the first call on FinancialAnalyzer(df)
FreshReturn(c, df) ==
  LET fresh == _prepare_data(df)
  IN CASE c[1] = "analyze_all_time" -> analyze_all_time(fresh)
       [] c[1] = "analyze_by_period" -> analyze_by_period(fresh, c[2])
       [] c[1] = "get_charity_analysis" -> get_charity_analysis(fresh)
       [] c[1] = "get_top_spending_categories" -> get_top_spending_categories(fresh, c[2])
       [] c[1] = "get_monthly_summary" -> get_monthly_summary(fresh)
       [] c[1] = "get_lending_summary" -> get_lending_summary(fresh)

C11_NoSideEffect ==
  [][/\ raw_data' = raw_data
     /\ processed_data' = processed_data
     /\ result' = FreshReturn(call', raw_data)]_vars

\* a view returned over a table with an expense, after which any call may follow
C11_Witness ==
  /\ call[1] = "get_top_spending_categories"
  /\ call[2] > 0
  /\ result.keys # <<>>
  /\ \E i \in DOMAIN processed_data : processed_data[i].amount < 0

(***************************************************************************)
(* C12 (missing categories): _calculate_metrics returns a record, and      *)
(* raises nothing, also when the set has no rows in 'Loan, interests',     *)
(* 'Lending, renting' or 'Charity', no expense rows or no income rows:     *)
(* what is absent counts as 0 or as an empty map, and without loan and     *)
(* repayment rows the adjusted maps are the raw maps.                      *)
(***************************************************************************)
NoExpense(rows) == \A i \in DOMAIN rows : rows[i].amount >= 0

NoIncome(rows) == \A i \in DOMAIN rows : rows[i].amount <= 0

C12_MissingCategories ==
  \A p \in Computed :
    LET raw == p.rec.raw_totals
        noLoan == ExpenseRows(p.data, LOAN_CATEGORY) = <<>>
        noRepayment == IncomeRows(p.data, REPAYMENT_CATEGORY) = <<>>
    IN /\ ~HasRaised(p.rec)
       /\ noLoan => p.rec.total_lending = 0 /\ p.rec.outstanding_lending = 0
       /\ noRepayment => p.rec.repaid_lending = 0 /\ p.rec.excess_repayment = 0
       /\ ExpenseRows(p.data, CHARITY_CATEGORY) = <<>> => p.rec.charity_spending = 0
       /\ NoExpense(p.data) =>
            /\ p.rec.total_spending = 0
            /\ raw.total_spending_raw = 0
            /\ DOMAIN p.rec.spending_by_category = {}
            /\ DOMAIN raw.spending_by_category_raw = {}
       /\ NoIncome(p.data) =>
            /\ p.rec.total_income = 0
            /\ raw.total_income_raw = 0
            /\ DOMAIN p.rec.income_by_category = {}
            /\ DOMAIN raw.income_by_category_raw = {}
       /\ noLoan /\ noRepayment =>
            /\ p.rec.spending_by_category = raw.spending_by_category_raw
            /\ p.rec.income_by_category = raw.income_by_category_raw
            /\ p.rec.total_spending = raw.total_spending_raw
            /\ p.rec.total_income = raw.total_income_raw

\* a set of ordinary expenses only: no loan, repayment, charity or income row
C12_Witness ==
  \E p \in Computed :
    /\ p.data # <<>>
    /\ \A i \in DOMAIN p.data : p.data[i].category = "Food" /\ p.data[i].amount < 0
    /\ p.rec.total_spending > 0

(***************************************************************************)
(* C13 (lending summary): get_lending_summary returns, without raising, a  *)
(* view whose 'overall' part holds total_lending, repaid_lending,          *)
(* outstanding_lending and excess_repayment of the all-time record and     *)
(* whose 'by_month' part holds, for every month key of                     *)
(* analyze_by_period('month'), the same four fields of that month.         *)
(***************************************************************************)
LendingFields(rec) ==
  [total_lending |-> rec.total_lending,
   repaid_lending |-> rec.repaid_lending,
   outstanding_lending |-> rec.outstanding_lending,
   excess_repayment |-> rec.excess_repayment]

C13_LendingSummary ==
  call[1] = "get_lending_summary" =>
    LET monthly == analyze_by_period(processed_data, "month")
    IN /\ ~HasRaised(result)
       /\ result.overall = LendingFields(analyze_all_time(processed_data))
       /\ DOMAIN result.by_month.val = DOMAIN monthly.val
       /\ \A m \in DOMAIN monthly.val :
            result.by_month.val[m] = LendingFields(monthly.val[m])

(***************************************************************************)
(* C14 (period keys and the monthly summary): the keys of                  *)
(* analyze_by_period are strings whose ascending string order is the       *)
(* chronological order of their periods; get_monthly_summary lists the     *)
(* months that hold a row, each once, in ascending order, and entry i of   *)
(* total_income, total_spending and net_balance is the value of the        *)
(* record of months[i], so that the four lists have one length.            *)
(***************************************************************************)
\* the code point of a character of a key
CharCode(ch) ==
  CASE ch = "-" -> 45
    [] ch = "Q" -> 81
    [] OTHER -> 47 + (CHOOSE i \in DOMAIN DigitChars : DigitChars[i] = ch)

\* a < b as Python compares strings
RECURSIVE StrLess(_, _)
StrLess(a, b) ==
  IF b = <<>> THEN FALSE
  ELSE IF a = <<>> THEN TRUE
  ELSE IF Head(a) # Head(b) THEN CharCode(Head(a)) < CharCode(Head(b))
  ELSE StrLess(Tail(a), Tail(b))

DateLess(d1, d2) == d1[1] < d2[1] \/ (d1[1] = d2[1] /\ d1[2] < d2[2])

\* every row of the period named k1 is dated before every row of that named k2
PeriodBefore(period, k1, k2) ==
  \A i \in DOMAIN RowsIn(period, k1) : \A j \in DOMAIN RowsIn(period, k2) :
    DateLess(RowsIn(period, k1)[i].date, RowsIn(period, k2)[j].date)

C14_KeysAndMonthlySummary ==
  call[1] = "get_monthly_summary" =>
    LET monthly == analyze_by_period(processed_data, "month")
        months == result.months
    IN /\ \A period \in Periods :
            LET keys == DOMAIN analyze_by_period(processed_data, period).val
            IN \A k1, k2 \in keys :
                 /\ RowsIn(period, k1) # <<>>
                 /\ StrLess(k1, k2) <=> PeriodBefore(period, k1, k2)
       /\ \A i, j \in DOMAIN months : i < j => StrLess(months[i], months[j])
       /\ {months[i] : i \in DOMAIN months}
            = {KeyOfDate("month", raw_data[i].date) : i \in DOMAIN raw_data}
       /\ Len(result.total_income) = Len(months)
       /\ Len(result.total_spending) = Len(months)
       /\ Len(result.net_balance) = Len(months)
       /\ \A i \in DOMAIN months :
            /\ result.total_income[i] = monthly.val[months[i]].total_income
            /\ result.total_spending[i] = monthly.val[months[i]].total_spending
            /\ result.net_balance[i] = monthly.val[months[i]].net_balance

\* two months of one year with different balances, one before and one from October on
C14_Witness ==
  /\ call[1] = "get_monthly_summary"
  /\ Len(result.months) >= 2
  /\ result.net_balance[1] # result.net_balance[2]
  /\ BeforeDash(result.months[1]) = BeforeDash(result.months[2])

(***************************************************************************)
(* C15 (top spending categories): for n >= 0,                              *)
(* get_top_spending_categories(n) returns exactly min(n, number of         *)
(* categories) entries of the all-time adjusted spending_by_category,      *)
(* each with its value unchanged, in non-increasing order of amount, and   *)
(* no category left out has a larger amount than one returned.             *)
(***************************************************************************)
C15_TopCategories ==
  call[1] = "get_top_spending_categories" =>
    LET spending == analyze_all_time(processed_data).spending_by_category
        count == Cardinality(DOMAIN spending)
        keys == result.keys
    IN /\ Len(keys) = (IF call[2] < count THEN call[2] ELSE count)
       /\ \A i, j \in DOMAIN keys : i # j => keys[i] # keys[j]
       /\ DOMAIN result.val = {keys[i] : i \in DOMAIN keys}
       /\ \A k \in DOMAIN result.val : k \in DOMAIN spending /\ result.val[k] = spending[k]
       /\ \A i, j \in DOMAIN keys : i < j => result.val[keys[i]] >= result.val[keys[j]]
       /\ \A k \in DOMAIN result.val : \A c \in DOMAIN spending \ DOMAIN result.val :
            result.val[k] >= spending[c]

\* the top 1 of two categories of different amounts
C15_Witness ==
  /\ call = <<"get_top_spending_categories", 1>>
  /\ Len(result.keys) = 1
  /\ \E c \in DOMAIN analyze_all_time(processed_data).spending_by_category :
       /\ c \notin DOMAIN result.val
       /\ analyze_all_time(processed_data).spending_by_category[c]
            < result.val[result.keys[1]]

(***************************************************************************)
(* C16 (raw totals): in every record the raw maps hold the unadjusted      *)
(* per-category sums: spending_by_category_raw['Loan, interests'] equals   *)
(* total_lending whenever loan expense rows exist and                      *)
(* income_by_category_raw['Lending, renting'] equals repaid_lending        *)
(* whenever repayment income rows exist, whatever the adjusted maps hold   *)
(* under these keys; total_spending_raw and total_income_raw are the sums  *)
(* of the raw maps.                                                        *)
(***************************************************************************)
C16_RawUntouched ==
  \A p \in Computed :
    LET raw == p.rec.raw_totals
    IN /\ \A c \in Categories :
            /\ c \in DOMAIN raw.spending_by_category_raw <=> ExpenseRows(p.data, c) # <<>>
            /\ c \in DOMAIN raw.spending_by_category_raw =>
                 raw.spending_by_category_raw[c] = ExpenseTotal(p.data, c)
            /\ c \in DOMAIN raw.income_by_category_raw <=> IncomeRows(p.data, c) # <<>>
            /\ c \in DOMAIN raw.income_by_category_raw =>
                 raw.income_by_category_raw[c] = IncomeTotal(p.data, c)
       /\ ExpenseRows(p.data, LOAN_CATEGORY) # <<>> =>
            raw.spending_by_category_raw[LOAN_CATEGORY] = p.rec.total_lending
       /\ IncomeRows(p.data, REPAYMENT_CATEGORY) # <<>> =>
            raw.income_by_category_raw[REPAYMENT_CATEGORY] = p.rec.repaid_lending
       /\ raw.total_spending_raw = ValuesSum(raw.spending_by_category_raw)
       /\ raw.total_income_raw = ValuesSum(raw.income_by_category_raw)

\* a partly repaid loan: the adjusted map holds the netted value, the raw map
\* the amount lent, and the repayment is in the raw income map only
C16_Witness ==
  \E p \in Computed :
    /\ LOAN_CATEGORY \in DOMAIN p.rec.spending_by_category
    /\ p.rec.spending_by_category[LOAN_CATEGORY]
         < p.rec.raw_totals.spending_by_category_raw[LOAN_CATEGORY]
    /\ REPAYMENT_CATEGORY \in DOMAIN p.rec.raw_totals.income_by_category_raw
    /\ REPAYMENT_CATEGORY \notin DOMAIN p.rec.income_by_category

(***************************************************************************)
(* C17 (simplified buckets): each category of the adjusted spending map is *)
(* counted in exactly one bucket of simplified_spending: 'Charity' in      *)
(* charity, 'Loan, interests' and 'Lending, renting' in lending, every     *)
(* other category in normal, so that normal is the sum of the adjusted     *)
(* spending over all categories other than those three.                    *)
(***************************************************************************)
AmountOf(d, c) == IF c \in DOMAIN d THEN d[c] ELSE 0

C17_Buckets ==
  \A p \in Computed :
    LET spending == p.rec.spending_by_category
        simplified == p.rec.simplified_spending
        named == {CHARITY_CATEGORY, LOAN_CATEGORY, REPAYMENT_CATEGORY}
    IN /\ simplified.charity = AmountOf(spending, CHARITY_CATEGORY)
       /\ simplified.lending = AmountOf(spending, LOAN_CATEGORY)
                                 + AmountOf(spending, REPAYMENT_CATEGORY)
       /\ simplified.normal =
            ValuesSum([c \in DOMAIN spending \ named |-> spending[c]])

\* an expense labelled 'Lending, renting' next to an ordinary expense
C17_Witness ==
  \E p \in Computed :
    /\ REPAYMENT_CATEGORY \in DOMAIN p.rec.spending_by_category
    /\ "Food" \in DOMAIN p.rec.spending_by_category
    /\ p.rec.simplified_spending.lending > 0
    /\ p.rec.simplified_spending.normal > 0

(***************************************************************************)
(* C18 (zero rows, count and average): rows of amount 0 contribute to no   *)
(* entry of the spending and income maps, raw or adjusted, and to neither  *)
(* total: the maps and totals are those of the set without its zero rows.  *)
(* The zero rows are counted in transaction_count, and for a non-empty set *)
(* avg_transaction * transaction_count is the signed sum of all row        *)
(* amounts, loan and repayment rows included without netting.              *)
(***************************************************************************)
SignedSum(rows) == SeqSum([i \in DOMAIN rows |-> rows[i].amount])

NonZero(rows) == SelectSeq(rows, LAMBDA r : r.amount # 0)

OnlyZero(rows, c) ==
  \A i \in DOMAIN rows : rows[i].category = c => rows[i].amount = 0

C18_ZeroRows ==
  \A p \in Computed :
    LET raw == p.rec.raw_totals
        without == _calculate_metrics(_prepare_data(NonZero(p.data)))
    IN /\ \A c \in Categories : OnlyZero(p.data, c) =>
            /\ c \notin DOMAIN p.rec.spending_by_category
            /\ c \notin DOMAIN p.rec.income_by_category
            /\ c \notin DOMAIN raw.spending_by_category_raw
            /\ c \notin DOMAIN raw.income_by_category_raw
       /\ p.rec.spending_by_category = without.spending_by_category
       /\ p.rec.income_by_category = without.income_by_category
       /\ p.rec.total_spending = without.total_spending
       /\ p.rec.total_income = without.total_income
       /\ raw = without.raw_totals
       /\ p.rec.transaction_count = Len(p.data)
       /\ p.data # <<>> =>
            /\ IsDefined(p.rec.avg_transaction)
            /\ p.rec.avg_transaction.num * p.rec.transaction_count
                 = SignedSum(p.data) * p.rec.avg_transaction.den

\* a row of amount 0 next to a loan or repayment row
C18_Witness ==
  \E p \in Computed :
    /\ \E i \in DOMAIN p.data : p.data[i].amount = 0
    /\ \E i \in DOMAIN p.data :
         /\ p.data[i].amount # 0
         /\ p.data[i].category \in {LOAN_CATEGORY, REPAYMENT_CATEGORY}
    /\ p.rec.transaction_count = 2
    /\ ~IsZero(p.rec.avg_transaction)

(***************************************************************************)
(* C19 (positive entries): in every record every value of                  *)
(* spending_by_category and of income_by_category is strictly positive,    *)
(* and total_spending >= 0 and total_income >= 0; a loan repaid in full or *)
(* beyond leaves no zero or negative spending entry.                       *)
(***************************************************************************)
C19_PositiveEntries ==
  \A p \in Computed :
    /\ \A c \in DOMAIN p.rec.spending_by_category : p.rec.spending_by_category[c] > 0
    /\ \A c \in DOMAIN p.rec.income_by_category : p.rec.income_by_category[c] > 0
    /\ p.rec.total_spending >= 0
    /\ p.rec.total_income >= 0

\* a loan repaid beyond what was lent, next to nothing else
C19_Witness ==
  \E p \in Computed :
    /\ p.rec.total_lending > 0
    /\ p.rec.excess_repayment > 0
    /\ LOAN_CATEGORY \notin DOMAIN p.rec.spending_by_category
    /\ p.rec.total_spending = 0

(***************************************************************************)
(* C20 (sign classes): each row stays in the class of its sign.  A row of  *)
(* positive amount labelled 'Loan, interests' is not counted in            *)
(* total_lending and is counted in income_by_category and total_income; a  *)
(* row of negative amount labelled 'Lending, renting' is not counted in    *)
(* repaid_lending and is counted in spending_by_category and               *)
(* total_spending.                                                         *)
(***************************************************************************)
C20_SignClasses ==
  \A p \in Computed :
    LET others(skip) == SetToSeq(Categories \ {skip})
    IN /\ p.rec.total_lending = ExpenseTotal(p.data, LOAN_CATEGORY)
       /\ p.rec.repaid_lending = IncomeTotal(p.data, REPAYMENT_CATEGORY)
       /\ IncomeRows(p.data, LOAN_CATEGORY) # <<>> =>
            /\ LOAN_CATEGORY \in DOMAIN p.rec.income_by_category
            /\ p.rec.income_by_category[LOAN_CATEGORY] = IncomeTotal(p.data, LOAN_CATEGORY)
       /\ p.rec.total_income =
            SeqSum([i \in DOMAIN others(REPAYMENT_CATEGORY) |->
                      IncomeTotal(p.data, others(REPAYMENT_CATEGORY)[i])])
       /\ ExpenseRows(p.data, REPAYMENT_CATEGORY) # <<>> =>
            /\ REPAYMENT_CATEGORY \in DOMAIN p.rec.spending_by_category
            /\ p.rec.spending_by_category[REPAYMENT_CATEGORY]
                 = ExpenseTotal(p.data, REPAYMENT_CATEGORY)
       /\ p.rec.total_spending =
            p.rec.outstanding_lending
              + SeqSum([i \in DOMAIN others(LOAN_CATEGORY) |->
                          ExpenseTotal(p.data, others(LOAN_CATEGORY)[i])])

\* income labelled 'Loan, interests' and an expense labelled 'Lending, renting'
C20_Witness ==
  \E p \in Computed :
    /\ IncomeRows(p.data, LOAN_CATEGORY) # <<>>
    /\ ExpenseRows(p.data, REPAYMENT_CATEGORY) # <<>>
    /\ p.rec.total_lending = 0
    /\ p.rec.repaid_lending = 0
    /\ p.rec.total_income > 0
    /\ p.rec.total_spending > 0

(***************************************************************************)
(* C23 (spending across periods): for every table and every granularity    *)
(* the all-time total_spending is at most the sum of total_spending over   *)
(* the per-period records, and the all-time net_balance is at least the    *)
(* sum of the per-period net_balance values.  (A loan made in one period   *)
(* and repaid in another counts in the period sum, not in the all-time     *)
(* total.)                                                                 *)
(***************************************************************************)
SumOverPeriods(by_period, F(_)) ==
  LET ks == SetToSeq(DOMAIN by_period.val)
  IN SeqSum([i \in DOMAIN ks |-> F(by_period.val[ks[i]])])

Min(a, b) == IF a <= b THEN a ELSE b

C25_NetAgainstRaw ==
  \A p \in Computed :
    LET raw == p.rec.raw_totals
    IN /\ p.rec.net_balance
            = raw.total_income_raw - raw.total_spending_raw - p.rec.excess_repayment
       /\ raw.total_spending_raw - p.rec.total_spending
            = Min(p.rec.total_lending, p.rec.repaid_lending)

\* a loan repaid beyond what was lent
C25_Witness ==
  \E p \in Computed :
    /\ p.rec.excess_repayment > 0
    /\ Min(p.rec.total_lending, p.rec.repaid_lending) > 0
    /\ p.rec.net_balance
         < p.rec.raw_totals.total_income_raw - p.rec.raw_totals.total_spending_raw

(***************************************************************************)
(* C26 (simplified split against the fields): in every record              *)
(* simplified_spending['charity'] equals charity_spending, and             *)
(* simplified_spending['lending'] equals outstanding_lending plus the      *)
(* summed magnitude of the expense rows labelled 'Lending, renting' (so    *)
(* outstanding_lending when no expense row has that label).                *)
(***************************************************************************)
C26_SimplifiedAgainstFields ==
  \A p \in Computed :
    /\ p.rec.simplified_spending.charity = p.rec.charity_spending
    /\ p.rec.simplified_spending.lending
         = p.rec.outstanding_lending + ExpenseTotal(p.data, REPAYMENT_CATEGORY)
    /\ ExpenseRows(p.data, REPAYMENT_CATEGORY) = <<>> =>
         p.rec.simplified_spending.lending = p.rec.outstanding_lending

\* an outstanding loan next to an expense labelled 'Lending, renting'
C26_Witness ==
  \E p \in Computed :
    /\ p.rec.outstanding_lending > 0
    /\ ExpenseRows(p.data, REPAYMENT_CATEGORY) # <<>>
    /\ p.rec.simplified_spending.lending > p.rec.outstanding_lending

(***************************************************************************)
(* C27 (rows and period groups): for month, year and quarter granularity   *)
(* every row lands in exactly one period group: every period key returned  *)
(* has transaction_count >= 1 and the per-period transaction_count values  *)
(* sum to the all-time transaction_count.                                  *)
(***************************************************************************)
C27_RowsPartitioned ==
  call[1] = "analyze_by_period" =>
    /\ \A k \in DOMAIN result.val : result.val[k].transaction_count >= 1
    /\ SumOverPeriods(result, LAMBDA r : r.transaction_count)
         = analyze_all_time(processed_data).transaction_count
    /\ analyze_all_time(processed_data).transaction_count = Len(raw_data)

\* rows in the same quarter of two different years
C27_Witness ==
  /\ call = <<"analyze_by_period", "quarter">>
  /\ Cardinality(DOMAIN result.val) = 2
  /\ \E i, j \in DOMAIN raw_data :
       /\ raw_data[i].date[1] # raw_data[j].date[1]
       /\ Quarter(raw_data[i].date)[2] = Quarter(raw_data[j].date)[2]

(***************************************************************************)
(* C21 (loading errors): a load ends in an error and returns no table      *)
(* whenever the file does not exist, has an unsupported extension, lacks a *)
(* 'date' or a 'category' column (names compared after lower-casing and    *)
(* stripping), or has neither a 'ref_currency_amount' nor an 'amount'      *)
(* column; and in none of these cases is a FinancialAnalyzer built from    *)
(* the file: the analyzer of the system stays what it was.                 *)
(***************************************************************************)
LoadCalls == {"load_data_from_file", "load_data_interactive"}

LacksColumn(f, name) ==
  \A j \in DOMAIN f.columns : StrStrip(StrLower(f.columns[j])) # name

Unsupported(path) ==
  StrLower(Suffix(path)) \notin {<<".", "x", "l", "s", "x">>, <<".", "x", "l", "s">>, <<".", "c", "s", "v">>}

Unloadable(f) ==
  \/ ~f.exists
  \/ Unsupported(f.path)
  \/ LacksColumn(f, <<"d", "a", "t", "e">>)
  \/ LacksColumn(f, <<"c", "a", "t", "e", "g", "o", "r", "y">>)
  \/ LacksColumn(f, <<"r", "e", "f", "_", "c", "u", "r", "r", "e", "n", "c", "y", "_", "a", "m", "o", "u", "n", "t">>) /\ LacksColumn(f, <<"a", "m", "o", "u", "n", "t">>)

C21_LoadErrors ==
  [][(call'[1] \in LoadCalls /\ Unloadable(call'[2])) =>
       /\ HasRaised(result')
       /\ UNCHANGED <<raw_data, processed_data, analyzer, last_loaded>>]_vars

\* after a successful load, a file of an accepted format that lacks only its
\* 'date' column is refused and the analyzer is still there
C21_Witness ==
  /\ call[1] \in LoadCalls
  /\ call[2].exists
  /\ ~Unsupported(call[2].path)
  /\ LacksColumn(call[2], <<"d", "a", "t", "e">>)
  /\ ~LacksColumn(call[2], <<"c", "a", "t", "e", "g", "o", "r", "y">>)
  /\ ~LacksColumn(call[2], <<"a", "m", "o", "u", "n", "t">>)
  /\ HasRaised(result)
  /\ analyzer = "FinancialAnalyzer"

(***************************************************************************)
(* C22 (cleaned table): every row of the table a successful load_data      *)
(* returns has a numeric amount and a description that is not missing.     *)
(* The rows whose amount cannot be read as a number are removed, all the   *)
(* other rows are kept in their original order, and a missing description  *)
(* becomes 'No description'.                                               *)
(***************************************************************************)
\* the cell of column name (as the loader names it) in row i of the file
FileCell(f, name, i) ==
  f.values[CHOOSE j \in DOMAIN f.columns :
             StrStrip(StrLower(f.columns[j])) = name][i]

\* the amount the loader reads in row i of the file: NaN when none
AmountRead(f, i) ==
  IF ~LacksColumn(f, <<"r", "e", "f", "_", "c", "u", "r", "r", "e", "n", "c", "y", "_", "a", "m", "o", "u", "n", "t">>)
  THEN IF FileCell(f, <<"r", "e", "f", "_", "c", "u", "r", "r", "e", "n", "c", "y", "_", "a", "m", "o", "u", "n", "t">>, i).na THEN NotANumber
       ELSE ToNumeric(FileCell(f, <<"r", "e", "f", "_", "c", "u", "r", "r", "e", "n", "c", "y", "_", "a", "m", "o", "u", "n", "t">>, i).text)
  ELSE IF FileCell(f, <<"a", "m", "o", "u", "n", "t">>, i).na THEN NotANumber
       ELSE ToNumeric(CleanAmount(FileCell(f, <<"a", "m", "o", "u", "n", "t">>, i).text))

C22_CleanedTable ==
  (call[1] = "load_data" /\ ~HasRaised(result)) =>
    LET f == call[2]
        readable == SelectSeq([i \in 1..f.nrows |-> i],
                              LAMBDA i : ~AmountRead(f, i).isna)
    IN /\ result.index = [k \in DOMAIN readable |-> readable[k] - 1]
       /\ \A k \in 1..NRows(result) :
            LET i == result.index[k] + 1
                description == Column(result, <<"d", "e", "s", "c", "r", "i", "p", "t", "i", "o", "n">>)[k]
            IN /\ Column(result, <<"a", "m", "o", "u", "n", "t">>)[k] = AmountRead(f, i)
               /\ ~Column(result, <<"a", "m", "o", "u", "n", "t">>)[k].isna
               /\ Column(result, <<"c", "a", "t", "e", "g", "o", "r", "y">>)[k] = FileCell(f, <<"c", "a", "t", "e", "g", "o", "r", "y">>, i)
               /\ ~description.na
               /\ description =
                    IF \/ LacksColumn(f, <<"d", "e", "s", "c", "r", "i", "p", "t", "i", "o", "n">>)
                       \/ FileCell(f, <<"d", "e", "s", "c", "r", "i", "p", "t", "i", "o", "n">>, i).na
                    THEN Text(<<"N", "o", " ", "d", "e", "s", "c", "r", "i", "p", "t", "i", "o", "n">>)
                    ELSE FileCell(f, <<"d", "e", "s", "c", "r", "i", "p", "t", "i", "o", "n">>, i)

\* a file whose first row has an amount that cannot be read and whose second
\* row, kept, has no description
C22_Witness ==
  /\ call[1] = "load_data"
  /\ ~HasRaised(result)
  /\ call[2].nrows = 2
  /\ result.index = <<1>>
  /\ ~LacksColumn(call[2], <<"d", "e", "s", "c", "r", "i", "p", "t", "i", "o", "n">>)
  /\ FileCell(call[2], <<"d", "e", "s", "c", "r", "i", "p", "t", "i", "o", "n">>, 2).na
  /\ Column(result, <<"d", "e", "s", "c", "r", "i", "p", "t", "i", "o", "n">>)[1] = Text(<<"N", "o", " ", "d", "e", "s", "c", "r", "i", "p", "t", "i", "o", "n">>)

(***************************************************************************)
(* C28 (reports need data): in any sequence of operations on a system,     *)
(* generate_html_report, generate_csv_report, generate_all_reports and     *)
(* get_quick_summary raise an error and write no report file as long as no *)
(* load has succeeded.                                                     *)
(***************************************************************************)
ReportCalls ==
  {"generate_html_report", "generate_csv_report", "generate_all_reports",
   "get_quick_summary"}

C28_ReportsNeedData ==
  IsNone(last_loaded) =>
    /\ call[1] \in ReportCalls => HasRaised(result)
    /\ DOMAIN report_files = {}

\* both reports asked for after a load that failed past the reading of the file
C28_Witness ==
  /\ call[1] = "generate_all_reports"
  /\ IsNone(last_loaded)
  /\ ~IsNone(data_loader.data)
  /\ HasRaised(result)
  /\ DOMAIN report_files = {}

(***************************************************************************)
(* C29 (failed loads): a load that fails re-raises the error and leaves    *)
(* the analyzer of the system exactly as it was, so after any sequence of  *)
(* loads the analyzer is the one built from the table of the most recent   *)
(* successful load, and every summary and report is computed from that     *)
(* table.                                                                  *)
(***************************************************************************)
FromLastLoad == _prepare_data(AnalyzerTable(last_loaded))

C29_FailedLoadKeepsAnalyzer ==
  /\ [][(call'[1] \in LoadCalls /\ HasRaised(result')) =>
          UNCHANGED <<raw_data, processed_data, analyzer, last_loaded>>]_vars
  /\ [](analyzer = "FinancialAnalyzer" /\ call[1] \in LoadCalls \cup ReportCalls =>
          /\ ~IsNone(last_loaded)
          /\ raw_data = AnalyzerTable(last_loaded)
          /\ processed_data = FromLastLoad
          /\ call[1] = "get_quick_summary" => result = analyze_all_time(FromLastLoad)
          /\ call[1] \in {"generate_html_report", "generate_all_reports"} =>
               report_files["report.html"] = HtmlContent(FromLastLoad)
          /\ call[1] \in {"generate_csv_report", "generate_all_reports"} =>
               report_files["report.csv"] = CsvContent(FromLastLoad))

\* a summary taken after a load that failed, itself after one that succeeded
C29_Witness ==
  /\ call[1] = "get_quick_summary"
  /\ ~HasRaised(result)
  /\ ~IsNone(last_loaded)
  /\ data_loader.data.columns # last_loaded.columns
  /\ result.transaction_count = 1

(***************************************************************************)
(* C30 (pie chart slices): for every non-empty spending map with positive  *)
(* values, the slice values create_spending_pie_chart plots (the           *)
(* categories above 2% of the total, plus the 'Others' slice for the rest) *)
(* sum to the sum of the input map, also when the input has a category     *)
(* named 'Others'.                                                         *)
(***************************************************************************)
C30_SlicesSum ==
  (call[1] = "create_spending_pie_chart" /\ spending_data.keys # <<>>) =>
    /\ ~IsNone(result)
    /\ DictSum(result) = DictSum(spending_data)

====
